---- MODULE Spec2Model ----
(***************************************************************************)
(* Model of vimdemux/utils.py: run and debug of the Python file under the  *)
(* editor's cursor in a tmux pane.                                         *)
(*                                                                         *)
(* A Python string is a sequence of atoms.  Paths are sequences of         *)
(* one-character atoms, so that startswith, endswith, replace, dirname and *)
(* basename are computed character by character.  An identifier coming     *)
(* from the syntax tree (node.name) and a literal of the code ("::",       *)
(* "clear", ...) is one atom.  Python's None is the atom "None", which is  *)
(* a keyword and can never be the name of a definition.                    *)
(*                                                                         *)
(* A parsed source file is the sequence of its statements in source order; *)
(* each statement has a kind, the nesting depth of the block it belongs to *)
(* (0 = module body), the statement whose body it is in, its line number   *)
(* and a name.  Kind "if" stands for every compound statement that is      *)
(* neither a function nor a class.                                         *)
(* Expression nodes are left out: ast.walk visits them, but none of them   *)
(* is a FunctionDef, AsyncFunctionDef or ClassDef.                         *)
(***************************************************************************)
EXTENDS Integers, Sequences, FiniteSets, TLC

VARIABLES
    fullpath,      \* the path of the file in the editor
    settings,      \* ~/.videmux.config
    source,        \* the content of the file, as ast.parse sees it
    linenum,       \* the line of the cursor in the last invocation
    op,            \* the entry point invoked: "run" or "debug"
    pc,            \* "idle", "done", or "uncaught" (an exception left run/debug)
    tmux_command,  \* the string passed to os.system, <<>> when none was
    printed,       \* the message printed, <<>> when none was
    opened,        \* how many times the source file was opened
    resolved,      \* the pair _find_path_to_test returned
    used           \* function_class, function_name when the command is built

vars == <<fullpath, settings, source, linenum, op, pc, tmux_command,
          printed, opened, resolved, used>>

\* Bounds of the model.
MaxNodes == 4
MaxLine == 4

None == "None"

----------------------------------------------------------------------------
\* Python string primitives.

startswith(s, prefix) ==
    /\ Len(prefix) <= Len(s)
    /\ SubSeq(s, 1, Len(prefix)) = prefix

endswith(s, suffix) ==
    /\ Len(suffix) <= Len(s)
    /\ SubSeq(s, Len(s) - Len(suffix) + 1, Len(s)) = suffix

\* str.replace(old, new) for a non-empty old: every non-overlapping
\* occurrence, left to right.
RECURSIVE replace(_, _, _)
replace(s, old, new) ==
    IF s = <<>> THEN <<>>
    ELSE IF startswith(s, old)
         THEN new \o replace(SubSeq(s, Len(old) + 1, Len(s)), old, new)
         ELSE <<Head(s)>> \o replace(Tail(s), old, new)

\* s.rfind("/") + 1, counted in characters from 0.
rfind_slash_plus_1(s) ==
    LET slashes == {i \in 1..Len(s) : s[i] = "/"}
    IN IF slashes = {} THEN 0
       ELSE CHOOSE i \in slashes : \A j \in slashes : j <= i

RECURSIVE rstrip_slash(_)
rstrip_slash(s) ==
    IF s # <<>> /\ s[Len(s)] = "/" THEN rstrip_slash(SubSeq(s, 1, Len(s) - 1))
    ELSE s

basename(p) == SubSeq(p, rfind_slash_plus_1(p) + 1, Len(p))

dirname(p) ==
    LET head == SubSeq(p, 1, rfind_slash_plus_1(p))
    IN IF head # <<>> /\ \E i \in 1..Len(head) : head[i] # "/"
       THEN rstrip_slash(head)
       ELSE head

RECURSIVE join(_, _)
join(sep, parts) ==
    IF parts = <<>> THEN <<>>
    ELSE IF Len(parts) = 1 THEN parts[1]
    ELSE parts[1] \o sep \o join(sep, Tail(parts))

----------------------------------------------------------------------------
\* The syntax trees ast.parse can produce, up to MaxNodes statements on
\* lines 1..MaxLine.

Kinds == {"FunctionDef", "AsyncFunctionDef", "ClassDef", "if", "stmt"}

NodeNames == <<"n1", "n2", "n3", "n4", "n5", "n6", "n7", "n8">>

IsCompound(kind) == kind # "stmt"

\* The statement a new statement of depth d belongs to, when it follows
\* statement k: the nearest statement of a smaller depth, from k upwards
\* (0 is the Module node).
RECURSIVE ParentAt(_, _, _)
ParentAt(s, k, d) ==
    IF k = 0 THEN 0
    ELSE IF s[k].depth < d THEN k
    ELSE ParentAt(s, s[k].parent, d)

\* The statements that can follow the statements s: the first statement of
\* the body of a compound statement, or a statement of an enclosing block
\* after a simple statement; always on a later line.
NextNodes(s) ==
    LET n == Len(s)
        lastline == IF n = 0 THEN 0 ELSE s[n].lineno
        depths == IF n = 0 THEN {0}
                  ELSE IF IsCompound(s[n].kind) THEN {s[n].depth + 1}
                  ELSE 0..s[n].depth
    IN { [kind |-> k, depth |-> d, parent |-> ParentAt(s, n, d),
          lineno |-> l, name |-> NodeNames[n + 1]] :
           k \in Kinds, d \in depths, l \in (lastline + 1)..MaxLine }

RECURSIVE Prefixes(_)
Prefixes(n) ==
    IF n = 0 THEN {<<>>}
    ELSE UNION { {Append(s, node) : node \in NextNodes(s)} : s \in Prefixes(n - 1) }

\* A file is complete when no compound statement is left without a body.
Trees ==
    { s \in UNION {Prefixes(n) : n \in 0..MaxNodes} :
        s = <<>> \/ s[Len(s)].kind = "stmt" }

\* ast.parse: a tree, or SyntaxError for a source that does not parse.
Malformed == [ok |-> FALSE, nodes |-> <<>>]

Parsed(nodes) == [ok |-> TRUE, nodes |-> nodes]

Sources == {Parsed(t) : t \in Trees} \cup {Malformed}

\* The statement whose body holds statement j; 0 is the Module node.
Parent(nodes, j) == nodes[j].parent

\* ast.iter_child_nodes: the statements of the body, in source order.
RECURSIVE ChildrenFrom(_, _, _)
ChildrenFrom(nodes, i, j) ==
    IF j > Len(nodes) THEN <<>>
    ELSE IF Parent(nodes, j) = i
         THEN <<j>> \o ChildrenFrom(nodes, i, j + 1)
         ELSE ChildrenFrom(nodes, i, j + 1)

iter_child_nodes(nodes, i) == ChildrenFrom(nodes, i, i + 1)

\* node.body[-1].lineno
last_body_lineno(nodes, i) ==
    LET body == iter_child_nodes(nodes, i)
    IN nodes[body[Len(body)]].lineno

\* ast.walk: todo = deque([node]); popleft, extend with the children, yield.
RECURSIVE walk_todo(_, _)
walk_todo(nodes, todo) ==
    IF todo = <<>> THEN <<>>
    ELSE <<Head(todo)>>
         \o walk_todo(nodes, Tail(todo) \o iter_child_nodes(nodes, Head(todo)))

walk(nodes) == walk_todo(nodes, <<0>>)

reversed(seq) == [i \in 1..Len(seq) |-> seq[Len(seq) + 1 - i]]

----------------------------------------------------------------------------
\* The definition resolver.

IsFunction(node) == node.kind \in {"FunctionDef", "AsyncFunctionDef"}

\* As function_encloses, but the line of the last body statement is left out.
function_encloses_exclusive(nodes, i, lineno) ==
    /\ nodes[i].lineno <= lineno
    /\ lineno < last_body_lineno(nodes, i)

\* node.lineno <= lineno and lineno <= node.body[-1].lineno
function_encloses(nodes, i, lineno) ==
    /\ nodes[i].lineno <= lineno
    /\ lineno <= last_body_lineno(nodes, i)

\* start_line <= lineno <= end_line, end_line = node.body[-1].lineno + 1
class_encloses(nodes, i, lineno) ==
    LET start_line == nodes[i].lineno
        end_line == last_body_lineno(nodes, i) + 1
    IN start_line <= lineno /\ lineno <= end_line

\* As enclosing_class_loop, but the last class that matches wins.
RECURSIVE enclosing_class_loop_last(_, _, _)
enclosing_class_loop_last(nodes, order, lineno) ==
    IF order = <<>> THEN None
    ELSE LET i == order[Len(order)]
         IN IF i # 0 /\ nodes[i].kind = "ClassDef" /\ class_encloses(nodes, i, lineno)
            THEN nodes[i].name
            ELSE enclosing_class_loop_last(nodes, SubSeq(order, 1, Len(order) - 1), lineno)

\* The loop of _find_enclosing_class over the rest of the walk.
RECURSIVE enclosing_class_loop(_, _, _)
enclosing_class_loop(nodes, order, lineno) ==
    IF order = <<>> THEN None
    ELSE LET i == Head(order)
         IN IF i # 0 /\ nodes[i].kind = "ClassDef" /\ class_encloses(nodes, i, lineno)
            THEN nodes[i].name
            ELSE enclosing_class_loop(nodes, Tail(order), lineno)

_find_enclosing_class(nodes, lineno) ==
    enclosing_class_loop(nodes, walk(nodes), lineno)

Pair(class_name, function_name) ==
    [class_name |-> class_name, function_name |-> function_name]

\* The loop of _find_path_to_test over the rest of the walk.
RECURSIVE path_to_test_loop(_, _, _)
path_to_test_loop(nodes, order, lineno) ==
    IF order = <<>> THEN Pair(None, None)
    ELSE LET i == Head(order)
         IN IF i # 0 /\ IsFunction(nodes[i]) /\ function_encloses(nodes, i, lineno)
            THEN Pair(_find_enclosing_class(nodes, nodes[i].lineno), nodes[i].name)
            ELSE path_to_test_loop(nodes, Tail(order), lineno)

\* As path_to_test_loop, but the class is looked up at the target line.
RECURSIVE path_to_test_loop_target_line(_, _, _)
path_to_test_loop_target_line(nodes, order, lineno) ==
    IF order = <<>> THEN Pair(None, None)
    ELSE LET i == Head(order)
         IN IF i # 0 /\ IsFunction(nodes[i]) /\ function_encloses(nodes, i, lineno)
            THEN Pair(_find_enclosing_class(nodes, lineno), nodes[i].name)
            ELSE path_to_test_loop_target_line(nodes, Tail(order), lineno)

\* As _find_path_to_test, but the class is looked up at the target line.
_find_path_to_test_target_line(nodes, lineno) ==
    path_to_test_loop_target_line(nodes, walk(nodes), lineno)

\* As _find_path_to_test, but without the early return: the last function
\* of the walk that matches wins.
_find_path_to_test_last(nodes, lineno) ==
    path_to_test_loop(nodes, reversed(walk(nodes)), lineno)

_find_path_to_test(nodes, lineno) ==
    path_to_test_loop(nodes, walk(nodes), lineno)

\* Number of times the source file is opened by a call of _find_path_to_test
\* that returned found: once by itself, once more by _find_enclosing_class.
path_to_test_opens(found) ==
    IF found.function_name = None THEN 1 ELSE 2

----------------------------------------------------------------------------
\* File classification and path mapping.

\* The truth value of a str-or-None.
Truthy(x) == x # None /\ x # ""

DotPy == <<".", "p", "y">>

TestMarker == <<"t", "e", "s", "t">>

\* As _get_file_type, but only a leading marker makes a test.
_get_file_type_prefix_only(path) ==
    LET base == basename(path)
    IN IF endswith(base, DotPy)
       THEN LET p == SubSeq(base, 1, Len(base) - 3)
            IN IF startswith(p, TestMarker)
               THEN "PYTHON_TEST"
               ELSE "PYTHON_SCRIPT"
       ELSE "UNKNOWN"

_get_file_type(path) ==
    LET base == basename(path)
    IN IF endswith(base, DotPy)
       THEN LET p == SubSeq(base, 1, Len(base) - 3)
            IN IF startswith(p, TestMarker) \/ endswith(p, TestMarker)
               THEN "PYTHON_TEST"
               ELSE "PYTHON_SCRIPT"
       ELSE "UNKNOWN"

\* ~/.videmux.config: missing (FileNotFoundError gives {}), or a dictionary
\* with the list "root-mappings" of [actual, mapped] pairs.
_load_settings(config) ==
    IF config.exists THEN config.mappings ELSE <<>>

RECURSIVE mapped_loop(_, _)
mapped_loop(filename, mappings) ==
    IF mappings = <<>> THEN filename
    ELSE LET actual == mappings[1][1]
             mapped == mappings[1][2]
         IN IF startswith(filename, actual)
            THEN replace(filename, actual, mapped)
            ELSE mapped_loop(filename, Tail(mappings))

_get_mapped_filename(filename, config) ==
    mapped_loop(filename, _load_settings(config))

----------------------------------------------------------------------------
\* The commands sent to tmux.

send_keys(cmds) ==
    <<"tmux select-pane -R && tmux send-keys '">>
        \o join(<<" && ">>, cmds) \o <<"' 'C-m'">>

_run_script(path, config) ==
    LET mapped == _get_mapped_filename(path, config)
    IN send_keys(<< <<"cd ">> \o dirname(mapped),
                    <<"unset PYTHONBREAKPOINT">>,
                    <<"clear">>,
                    <<"python3.10 ">> \o basename(mapped) \o <<" ">> >>)

_debug_script(path, config) ==
    LET mapped == _get_mapped_filename(path, config)
    IN send_keys(<< <<"cd ">> \o dirname(mapped),
                    <<"export PYTHONBREAKPOINT=ipdb.set_trace">>,
                    <<"clear">>,
                    <<"python3.10 -m pdb ">> \o basename(mapped) \o <<" ">> >>)

\* As test_name, but the function is left out when there is a class.
test_name_class_only(base, function_class, function_name) ==
    IF Truthy(function_class)
    THEN base \o <<"::">> \o <<function_class>>
    ELSE base \o <<"::">> \o <<function_name>>

\* test_name = basename; if function_class: test_name += "::" + function_class;
\* test_name += "::" + function_name
test_name(base, function_class, function_name) ==
    LET with_class == IF Truthy(function_class)
                      THEN base \o <<"::">> \o <<function_class>>
                      ELSE base
    IN with_class \o <<"::">> \o <<function_name>>

\* The two branches of _run_test after the resolution.
run_test_command(path, config, function_class, function_name) ==
    LET mapped == _get_mapped_filename(path, config)
        target == IF function_name = None THEN basename(mapped)
                  ELSE test_name(basename(mapped), function_class, function_name)
    IN send_keys(<< <<"cd ">> \o dirname(mapped),
                    <<"clear">>,
                    <<"echo ">> \o target,
                    <<"pytest ">> \o target \o <<" ">> >>)

\* The two branches of _debug_test after the resolution.
debug_test_command(path, config, function_class, function_name) ==
    LET mapped == _get_mapped_filename(path, config)
        target == IF function_name = None THEN basename(mapped)
                  ELSE test_name(basename(mapped), function_class, function_name)
    IN send_keys(<< <<"cd ">> \o dirname(mapped),
                    <<"clear">>,
                    <<"pytest --trace ">> \o target \o <<" ">> >>)

\* As debug_test_pair, but without the test of function_name.
debug_test_pair_unguarded(nodes, lineno, found) ==
    Pair(_find_enclosing_class(nodes, lineno), found.function_name)

\* function_class, function_name = found, the pair _find_path_to_test
\* returned; if function_name:
\*     function_class = _find_enclosing_class(fullpath, linenum)
debug_test_pair(nodes, lineno, found) ==
    IF Truthy(found.function_name)
    THEN Pair(_find_enclosing_class(nodes, lineno), found.function_name)
    ELSE found

----------------------------------------------------------------------------
\* The inputs.

Chars(dir, base) == <<"/">> \o dir \o <<"/">> \o base

TestPrefixedPath == Chars(<<"t">>, <<"t", "e", "s", "t", "_", "a", ".", "p", "y">>)

TestSuffixedPath == Chars(<<"w">>, <<"a", "_", "t", "e", "s", "t", ".", "p", "y">>)

ScriptPath == Chars(<<"t", "e", "s", "t">>, <<"a", ".", "p", "y">>)

UnknownPath == Chars(<<"w">>, <<"t", "e", "s", "t", ".", "t", "x", "t">>)

TestPaths == {TestPrefixedPath, TestSuffixedPath}

OtherPaths == {ScriptPath, UnknownPath}

NoConfig == [exists |-> FALSE, mappings |-> <<>>]

Config(mappings) == [exists |-> TRUE, mappings |-> mappings]

Configs ==
    { NoConfig,
      Config(<< <<(<<"/", "x">>), (<<"/", "y">>)>>,
                <<(<<"/", "t">>), (<<"/", "v", "m">>)>> >>) }

\* The files at the paths that are not tests are never parsed: a few of
\* them are enough.
SmallSources == {s \in Sources : Len(s.nodes) <= 2}

LineNumbers == 1..(MaxLine + 1)

Init ==
    /\ \/ fullpath \in TestPaths /\ source \in Sources
       \/ fullpath \in OtherPaths /\ source \in SmallSources
    /\ settings \in Configs
    /\ linenum = 0
    /\ op = "none"
    /\ pc = "idle"
    /\ tmux_command = <<>>
    /\ printed = <<>>
    /\ opened = 0
    /\ resolved = Pair(None, None)
    /\ used = Pair(None, None)

\* An exception raised by ast.parse leaves run/debug: nothing catches it.
Raise ==
    /\ pc' = "uncaught"
    /\ tmux_command' = <<>>
    /\ printed' = <<>>
    /\ opened' = 1
    /\ resolved' = Pair(None, None)
    /\ used' = Pair(None, None)

run(lineno) ==
    /\ pc = "idle"
    /\ linenum' = lineno
    /\ op' = "run"
    /\ UNCHANGED <<fullpath, settings, source>>
    /\ LET filetype == _get_file_type(fullpath)
       IN IF filetype = "PYTHON_SCRIPT"
          THEN /\ tmux_command' = _run_script(fullpath, settings)
               /\ pc' = "done"
               /\ UNCHANGED <<printed, opened, resolved, used>>
          ELSE IF filetype = "PYTHON_TEST"
          THEN IF source.ok
               THEN LET pair == _find_path_to_test(source.nodes, lineno)
                    IN /\ resolved' = pair
                       /\ used' = pair
                       /\ opened' = path_to_test_opens(pair)
                       /\ tmux_command' =
                              run_test_command(fullpath, settings,
                                               pair.class_name, pair.function_name)
                       /\ pc' = "done"
                       /\ UNCHANGED printed
               ELSE Raise
          ELSE /\ printed' = <<"Dont now how to run ">> \o fullpath
               /\ pc' = "done"
               /\ UNCHANGED <<tmux_command, opened, resolved, used>>

debug(lineno) ==
    /\ pc = "idle"
    /\ linenum' = lineno
    /\ op' = "debug"
    /\ UNCHANGED <<fullpath, settings, source>>
    /\ LET filetype == _get_file_type(fullpath)
       IN IF filetype = "PYTHON_SCRIPT"
          THEN /\ tmux_command' = _debug_script(fullpath, settings)
               /\ pc' = "done"
               /\ UNCHANGED <<printed, opened, resolved, used>>
          ELSE IF filetype = "PYTHON_TEST"
          THEN IF source.ok
               THEN LET found == _find_path_to_test(source.nodes, lineno)
                        pair == debug_test_pair(source.nodes, lineno, found)
                    IN /\ resolved' = found
                       /\ used' = pair
                       /\ opened' = path_to_test_opens(found)
                                      + (IF Truthy(pair.function_name) THEN 1 ELSE 0)
                       /\ tmux_command' =
                              debug_test_command(fullpath, settings,
                                                 pair.class_name, pair.function_name)
                       /\ pc' = "done"
                       /\ UNCHANGED printed
               ELSE Raise
          ELSE /\ printed' = <<"Dont now how to debug ">> \o fullpath
               /\ pc' = "done"
               /\ UNCHANGED <<tmux_command, opened, resolved, used>>

Next ==
    \/ \E lineno \in LineNumbers : run(lineno)
    \/ \E lineno \in LineNumbers : debug(lineno)

Spec == Init /\ [][Next]_vars

----------------------------------------------------------------------------
\* Vocabulary of the properties, stated on the tree and not on the walk.

\* A test file was resolved and the command was sent.
TestDone == pc = "done" /\ op # "none" /\ fullpath \in TestPaths

Functions(nodes) == {i \in 1..Len(nodes) : IsFunction(nodes[i])}

Classes(nodes) == {i \in 1..Len(nodes) : nodes[i].kind = "ClassDef"}

\* The line of the last top-level statement of the body of statement i.
LastStatementLine(nodes, i) ==
    LET lines == {nodes[j].lineno : j \in {k \in 1..Len(nodes) : Parent(nodes, k) = i}}
    IN CHOOSE l \in lines : \A m \in lines : m <= l

\* Line l is in the interval [a, b] of function i.
InFunction(nodes, i, l) ==
    nodes[i].lineno <= l /\ l <= LastStatementLine(nodes, i)

\* Line l is in the interval [c0, c1 + 1] of class i.
InClass(nodes, i, l) ==
    nodes[i].lineno <= l /\ l <= LastStatementLine(nodes, i) + 1

RECURSIVE Encloses(_, _, _)
\* Statement k is a proper ancestor of statement j.
Encloses(nodes, k, j) ==
    LET p == Parent(nodes, j)
    IN p # 0 /\ (p = k \/ Encloses(nodes, k, p))

\* The statement of a name; names are unique in a tree.
Named(nodes, name) == CHOOSE i \in 1..Len(nodes) : nodes[i].name = name

\* The first function, in source (pre-order) order, whose interval holds l.
PreOrderFirst(nodes, l) ==
    LET hits == {i \in Functions(nodes) : InFunction(nodes, i, l)}
    IN IF hits = {} THEN None
       ELSE nodes[CHOOSE i \in hits : \A j \in hits : i <= j].name

----------------------------------------------------------------------------
C2_MethodResolvesToItsClass ==
    TestDone =>
        \A c \in Classes(source.nodes) : \A f \in Functions(source.nodes) :
            ( /\ Parent(source.nodes, f) = c
              /\ InClass(source.nodes, c, source.nodes[f].lineno)
              /\ InFunction(source.nodes, f, linenum) )
            => resolved = Pair(source.nodes[c].name, source.nodes[f].name)

\* C2 amended: a function f nested inside class C, with its def line in C's
\* interval and the target line in f's interval, resolves to (C, f) provided
\* no class enclosing C has the def line of f in its interval and no function
\* enclosing f has the target line in its interval.
C2_MethodResolvesToOutermostClass ==
    TestDone =>
        \A c \in Classes(source.nodes) : \A f \in Functions(source.nodes) :
            ( /\ Encloses(source.nodes, c, f)
              /\ InClass(source.nodes, c, source.nodes[f].lineno)
              /\ InFunction(source.nodes, f, linenum)
              /\ \A d \in Classes(source.nodes) :
                     Encloses(source.nodes, d, c)
                         => ~InClass(source.nodes, d, source.nodes[f].lineno)
              /\ \A g \in Functions(source.nodes) :
                     Encloses(source.nodes, g, f)
                         => ~InFunction(source.nodes, g, linenum) )
            => resolved = Pair(source.nodes[c].name, source.nodes[f].name)

\* A method whose body's last line is the target, past the interval of its
\* class, resolved to the class and the method.
C2_Witness ==
    /\ TestDone
    /\ \E c \in Classes(source.nodes) : \E f \in Functions(source.nodes) :
           /\ Parent(source.nodes, f) = c
           /\ Parent(source.nodes, c) = 0
           /\ InFunction(source.nodes, f, linenum)
           /\ ~InClass(source.nodes, c, linenum)
           /\ resolved = Pair(source.nodes[c].name, source.nodes[f].name)

----------------------------------------------------------------------------
\* The command each entry point sends for a test identifier.
ExpectedCommand(dir, identifier) ==
    IF op = "run"
    THEN <<"tmux select-pane -R && tmux send-keys '">>
             \o <<"cd ">> \o dir \o <<" && ">> \o <<"clear">> \o <<" && ">>
             \o <<"echo ">> \o identifier \o <<" && ">>
             \o <<"pytest ">> \o identifier \o <<" ">> \o <<"' 'C-m'">>
    ELSE <<"tmux select-pane -R && tmux send-keys '">>
             \o <<"cd ">> \o dir \o <<" && ">> \o <<"clear">> \o <<" && ">>
             \o <<"pytest --trace ">> \o identifier \o <<" ">> \o <<"' 'C-m'">>

\* The identifier of a (class, function) pair.
ExpectedIdentifier(base, pair) ==
    IF pair.function_name = None THEN base
    ELSE IF pair.class_name = None THEN base \o <<"::", pair.function_name>>
    ELSE base \o <<"::", pair.class_name, "::", pair.function_name>>

----------------------------------------------------------------------------
\* The classification by the basename alone: chars after the last "/".
NameOf(path) ==
    LET slashes == {i \in 1..Len(path) : path[i] = "/"}
        cut == IF slashes = {} THEN 0
               ELSE CHOOSE i \in slashes : \A j \in slashes : j <= i
    IN [i \in 1..(Len(path) - cut) |-> path[cut + i]]

HasPySuffix(name) ==
    /\ Len(name) >= 3
    /\ name[Len(name) - 2] = "." /\ name[Len(name) - 1] = "p" /\ name[Len(name)] = "y"

IsTestName(name) ==
    /\ HasPySuffix(name)
    /\ Len(name) >= 7
    /\ \/ name[1] = "t" /\ name[2] = "e" /\ name[3] = "s" /\ name[4] = "t"
       \/ /\ name[Len(name) - 6] = "t" /\ name[Len(name) - 5] = "e"
          /\ name[Len(name) - 4] = "s" /\ name[Len(name) - 3] = "t"

\* The command each entry point sends for a whole script.
ExpectedScriptCommand(dir, base) ==
    IF op = "run"
    THEN <<"tmux select-pane -R && tmux send-keys '">>
             \o <<"cd ">> \o dir \o <<" && ">> \o <<"unset PYTHONBREAKPOINT">>
             \o <<" && ">> \o <<"clear">> \o <<" && ">>
             \o <<"python3.10 ">> \o base \o <<" ">> \o <<"' 'C-m'">>
    ELSE <<"tmux select-pane -R && tmux send-keys '">>
             \o <<"cd ">> \o dir \o <<" && ">>
             \o <<"export PYTHONBREAKPOINT=ipdb.set_trace">>
             \o <<" && ">> \o <<"clear">> \o <<" && ">>
             \o <<"python3.10 -m pdb ">> \o base \o <<" ">> \o <<"' 'C-m'">>

----------------------------------------------------------------------------
\* C5: on a test file whose source does not parse, run and debug end with a
\* whole-file command sent or the error reported, never with an uncaught
\* error.
C5_MalformedSourceDegrades ==
    (op # "none" /\ fullpath \in TestPaths /\ ~source.ok) =>
        /\ pc = "done"
        /\ \/ LET mapped == _get_mapped_filename(fullpath, settings)
              IN tmux_command =
                     ExpectedCommand(dirname(mapped), basename(mapped))
           \/ printed # <<>>

----------------------------------------------------------------------------
\* C6: in the pair the resolver returns and in the pair run and debug use,
\* a class name is present only if a function name is.
C6_ClassOnlyWithFunction ==
    /\ resolved.class_name # None => resolved.function_name # None
    /\ used.class_name # None => used.function_name # None

\* debug at a line that is in the interval of a class and in no function:
\* neither name is used.
C6_Witness ==
    /\ TestDone
    /\ op = "debug"
    /\ \E c \in Classes(source.nodes) : InClass(source.nodes, c, linenum)
    /\ \A f \in Functions(source.nodes) : ~InFunction(source.nodes, f, linenum)
    /\ used = Pair(None, None)

----------------------------------------------------------------------------
\* C7: the function the walk of the code (breadth-first) returns is the
\* first function, in a pre-order traversal, whose interval holds the target
\* line.
C7_WalkAgreesWithPreOrder ==
    TestDone => resolved.function_name = PreOrderFirst(source.nodes, linenum)

\* Two functions hold the target line, in a tree that the walk does not
\* visit in pre-order.
C7_Witness ==
    /\ TestDone
    /\ \E f, g \in Functions(source.nodes) :
           /\ f # g
           /\ InFunction(source.nodes, f, linenum)
           /\ InFunction(source.nodes, g, linenum)
    /\ walk(source.nodes) # [i \in 1..(Len(source.nodes) + 1) |-> i - 1]
    /\ resolved.function_name # None

----------------------------------------------------------------------------
\* C8 as stated: the class returned is the innermost one whose interval
\* holds the def line of the matched function: no other such class is nested
\* inside it.
C8_InnermostClass ==
    (TestDone /\ resolved.class_name # None) =>
        LET nodes == source.nodes
            c == Named(nodes, resolved.class_name)
            a == nodes[Named(nodes, resolved.function_name)].lineno
        IN \A d \in Classes(nodes) :
               InClass(nodes, d, a) => ~Encloses(nodes, c, d)

\* C8 amended: the class returned is the first one, in the breadth-first
\* walk, whose interval holds the def line of the matched function, that is
\* the outermost one: its interval holds that line and it is nested inside
\* no other such class; and no class is returned only if there is none.
C8_OutermostClass ==
    TestDone =>
        LET nodes == source.nodes
        IN IF resolved.class_name # None
           THEN LET c == Named(nodes, resolved.class_name)
                    a == nodes[Named(nodes, resolved.function_name)].lineno
                IN /\ c \in Classes(nodes)
                   /\ InClass(nodes, c, a)
                   /\ \A d \in Classes(nodes) :
                          InClass(nodes, d, a) => ~Encloses(nodes, d, c)
           ELSE resolved.function_name # None =>
                    LET a == nodes[Named(nodes, resolved.function_name)].lineno
                    IN \A d \in Classes(nodes) : ~InClass(nodes, d, a)

\* Two nested classes hold the def line of the matched function and the
\* outer one was returned.
C8_Witness ==
    /\ TestDone
    /\ resolved.class_name # None
    /\ LET nodes == source.nodes
           c == Named(nodes, resolved.class_name)
           a == nodes[Named(nodes, resolved.function_name)].lineno
       IN \E d \in Classes(nodes) : InClass(nodes, d, a) /\ Encloses(nodes, c, d)

----------------------------------------------------------------------------
\* C9: run and debug select the same test: the pair the command is built
\* from is the pair the resolver returned, the class being the one of the
\* def line of the matched function.
C9_DebugSelectsAsRun ==
    TestDone => used = resolved

----------------------------------------------------------------------------
\* C10: a function at module top level is resolved without a class.
C10_TopLevelFunctionHasNoClass ==
    (TestDone /\ resolved.function_name # None) =>
        (source.nodes[Named(source.nodes, resolved.function_name)].depth = 0
             => resolved.class_name = None)

====
